---- MODULE Spec2Model ----
(***************************************************************************)
(* audio_proxy/service/DeviceImpl.cpp: the proxy audio device.             *)
(*                                                                         *)
(* State: the process-wide patch-handle counter, each Device's set of open *)
(* patch handles, and the BusStreamProvider's list of registered output    *)
(* streams.  Spec runs whole calls one after another (a single caller);    *)
(* SpecConcPatch and SpecConcStream run the calls of two binder threads    *)
(* statement by statement, DeviceImpl holding no lock of its own.          *)
(***************************************************************************)
EXTENDS Integers, Sequences, FiniteSets, TLC

\* ---------------------------------------------------------------- bounds
\* Allocations explored: no call allocates once the counter exceeds it.
MaxAlloc == 3
\* Output streams opened in one run.
MaxStreams == 1

\* Identities of the DeviceImpl objects a process may construct.
DeviceIds == {1, 2}
\* Binder threads delivering calls in SpecConcPatch and SpecConcStream.
Threads == {1, 2}

\* ------------------------------------------------------------- constants
\* A counter initialised one too low.
InitialHandleZero == 1 - 1

\* AudioPatchHandle gNextAudioPatchHandle = 1;
InitialHandle == 1
\* AudioPatchHandle is int32_t.
AudioPatchHandleMax == 2147483647
AudioPatchHandleMin == (-2147483647) - 1

\* Handle values a caller may pass to releaseAudioPatch / updateAudioPatch:
\* every value the bounded run can allocate and one it cannot.
HandleArgs == 1 .. (MaxAlloc + 1)

StreamIds == 1 .. (MaxStreams + 1)

VARIABLES
  devices,                \* the DeviceImpl objects constructed in this process
  gNextAudioPatchHandle,  \* the file-scope counter
  mAudioPatchHandles,     \* [Devices -> set of open handles]
  mStreamOutList,         \* provider: registered stream sessions (weak refs)
  strongRefs,             \* ids of the sessions somebody still holds a strong ref to
  nextStreamId,           \* identity of the next StreamOutImpl object
  dcheckEnabled,          \* build flavour: DCHECK compiled in or out
  aborted,                \* the process died in a failed DCHECK
  last,                   \* the last completed call and what it reported (Spec)
  issued,                 \* sequence of <<device, handle>> reported with Result::OK
  released,               \* set of <<device, handle>> whose erase removed an element
  closedOk,               \* devices whose close() has returned Result::OK
  pc,                     \* the statement each binder thread is at
  loc                     \* the arguments and locals of the call it is in

vars == <<devices, gNextAudioPatchHandle, mAudioPatchHandles, mStreamOutList, strongRefs,
          nextStreamId, dcheckEnabled, aborted, last, issued, released, closedOk,
          pc, loc>>

registry == <<gNextAudioPatchHandle, mAudioPatchHandles>>
provider == <<mStreamOutList, strongRefs, nextStreamId>>
threadVars == <<pc, loc>>

\* ---------------------------------------------------------- pure helpers
\* A counter that does not advance.
PostIncrementStuck(g) == g

\* gNextAudioPatchHandle++ : the value the counter holds afterwards.
PostIncrement(g) == IF g = AudioPatchHandleMax THEN AudioPatchHandleMin ELSE g + 1

\* std::set::insert
SetInsert(S, h) == S \cup {h}

\* An erase that leaves the key in place.
SetEraseKeeps(S, h) == S

\* std::set::erase(key): the set afterwards, and the number of elements removed.
SetErase(S, h) == S \ {h}
SetEraseCount(S, h) == IF h \in S THEN 1 ELSE 0

\* A release that ignores what erase removed.
ReleaseResultAlwaysOk(removed) == "OK"

\* removed > 0 ? Result::OK : Result::INVALID_ARGUMENTS
ReleaseResult(removed) == IF removed > 0 THEN "OK" ELSE "INVALID_ARGUMENTS"

\* A close that also refuses while a patch handle is open.
CloseResultNeedsNoPatches(n) ==
  IF n = 0 /\ (\A d \in devices : mAudioPatchHandles[d] = {})
    THEN "OK" ELSE "INVALID_STATE"

\* A close that ignores the count.
CloseResultAlwaysOk(n) == "OK"

\* cleanAndCountStreamOuts() == 0 ? Result::OK : Result::INVALID_STATE
CloseResult(n) == IF n = 0 THEN "OK" ELSE "INVALID_STATE"

\* ------------------------------------------------- audio configurations
\* A 32-bit unsigned field of the HIDL AudioConfig: its top bit and its low
\* 31 bits.
U32(hi, lo) == [hi |-> hi, lo |-> lo]

\* static_cast of a 32-bit unsigned value to a 32-bit signed one.
CastInt32(u) == IF u.hi = 1 THEN AudioPatchHandleMin + u.lo ELSE u.lo

AudioConfig(format, sampleRateHz, channelMask) ==
  [format |-> format, sampleRateHz |-> sampleRateHz, channelMask |-> channelMask]

\* toAidlAudioConfig: each field cast to the AIDL type.
toAidlAudioConfig(hidl_config) ==
  [format |-> CastInt32(hidl_config.format),
   sampleRateHz |-> CastInt32(hidl_config.sampleRateHz),
   channelMask |-> CastInt32(hidl_config.channelMask)]

\* A config that is not the one asked for.
NegotiatedConfigRenegotiated(config) ==
  [config EXCEPT !.sampleRateHz = U32(0, 48000)]

\* _hidl_cb(Result::OK, streamOut, config): the config handed back.
NegotiatedConfig(config) == config

\* Configs a caller asks for: 16-bit PCM stereo at 44100 Hz, and one whose
\* fields all have their top bit set.
Configs ==
  {AudioConfig(U32(0, 1), U32(0, 44100), U32(0, 3)),
   AudioConfig(U32(1, 1), U32(1, 44100), U32(1, 3))}

NoConfig == AudioConfig(U32(0, 0), U32(0, 0), U32(0, 0))

\* ------------------------------------------------- BusStreamProvider
\* A registered session: the StreamOutImpl object, the device that made it,
\* and whether the bus stream it wraps is null.
Session(id, d, bus) == [id |-> id, dev |-> d, bus |-> bus]

\* cleanAndCountStreamOuts: the entries whose stream is still alive.
CleanStreamOutList(list, refs) == {s \in list : s.id \in refs}

\* BusStreamProvider::onStreamOutCreated
OnStreamOutCreated(list, s) == list \cup {s}

\* What BusStreamProvider::openOutputStream may hand back.
BusStreams == {"stream", "null"}

\* What a call reports: its status, the handle or stream it hands back (0 is
\* none, the null stream) and, from the stream calls, the config.
Rec(op, d, arg, status, handle) ==
  [op |-> op, dev |-> d, arg |-> arg, status |-> status, handle |-> handle,
   config |-> NoConfig, busConfig |-> toAidlAudioConfig(NoConfig)]

StreamRec(op, d, id, status, config, busConfig) ==
  [Rec(op, d, id, status, 0) EXCEPT !.config = config, !.busConfig = busConfig]

NoCall == Rec("none", 0, 0, "none", 0)

\* A thread's frame: the device and handle argument of the call, the handle
\* read from the counter, what erase found, the bus stream and the session,
\* the config asked for, and the number of results the call has handed over
\* (callbacks invoked, statuses returned).
Locals(d, arg, handle, found, bus, id) ==
  [dev |-> d, arg |-> arg, handle |-> handle, found |-> found, bus |-> bus, id |-> id,
   config |-> NoConfig, results |-> 0]

NoLocals == Locals(0, 0, 0, 0, "none", 0)

\* The allocations explored: MaxAlloc of them, with the counter within
\* MaxAlloc of where it starts or of the end of its type.
AllocBound ==
  /\ Len(issued) < MaxAlloc
  /\ \/ gNextAudioPatchHandle <= MaxAlloc
     \/ gNextAudioPatchHandle >= AudioPatchHandleMax - MaxAlloc

\* The state once the devices in D are constructed: DeviceImpl::DeviceImpl
\* leaves mAudioPatchHandles empty, the counter holds its initializer.
Constructed(D) ==
  /\ devices = D
  /\ gNextAudioPatchHandle = InitialHandle
  /\ mAudioPatchHandles = [d \in D |-> {}]
  /\ mStreamOutList = {}
  /\ strongRefs = {}
  /\ nextStreamId = 1
  /\ dcheckEnabled \in BOOLEAN
  /\ aborted = FALSE
  /\ last = NoCall
  /\ issued = <<>>
  /\ released = {}
  /\ closedOk = {}
  /\ pc = [t \in Threads |-> "idle"]
  /\ loc = [t \in Threads |-> NoLocals]

\* One Device per process, as the service runs it.
Init == Constructed({1})

\* ------------------------------------------------ whole calls (Spec)
\* DeviceImpl::createAudioPatch
createAudioPatch(d) ==
  /\ ~aborted
  /\ AllocBound
  /\ LET handle == gNextAudioPatchHandle IN
       /\ gNextAudioPatchHandle' = PostIncrement(gNextAudioPatchHandle)
       /\ mAudioPatchHandles' =
            [mAudioPatchHandles EXCEPT ![d] = SetInsert(@, handle)]
       /\ last' = Rec("createAudioPatch", d, 0, "OK", handle)
       /\ issued' = Append(issued, <<d, handle>>)
  /\ UNCHANGED <<devices, provider, dcheckEnabled, aborted, released, closedOk, threadVars>>

\* DeviceImpl::releaseAudioPatch
releaseAudioPatch(d, patch) ==
  /\ ~aborted
  /\ LET removed == SetEraseCount(mAudioPatchHandles[d], patch) IN
       /\ mAudioPatchHandles' =
            [mAudioPatchHandles EXCEPT ![d] = SetErase(@, patch)]
       /\ last' = Rec("releaseAudioPatch", d, patch, ReleaseResult(removed), 0)
       /\ released' = IF removed > 0 THEN released \cup {<<d, patch>>} ELSE released
  /\ UNCHANGED <<devices, gNextAudioPatchHandle, provider, dcheckEnabled, aborted, issued,
                 closedOk, threadVars>>

\* An update that takes a handle before it looks for previousPatch.
updateAudioPatchInvalidAllocates(d, previousPatch) ==
  /\ ~aborted
  /\ AllocBound
  /\ SetEraseCount(mAudioPatchHandles[d], previousPatch) = 0
  /\ gNextAudioPatchHandle' = PostIncrement(gNextAudioPatchHandle)
  /\ last' = Rec("updateAudioPatch", d, previousPatch, "INVALID_ARGUMENTS", 0)
  /\ UNCHANGED <<devices, mAudioPatchHandles, provider, dcheckEnabled, aborted, issued,
                 released, closedOk, threadVars>>

\* DeviceImpl::updateAudioPatch, erase(previousPatch) == 0: the early return.
updateAudioPatchInvalid(d, previousPatch) ==
  /\ ~aborted
  /\ SetEraseCount(mAudioPatchHandles[d], previousPatch) = 0
  /\ mAudioPatchHandles' =
       [mAudioPatchHandles EXCEPT ![d] = SetErase(@, previousPatch)]
  /\ last' = Rec("updateAudioPatch", d, previousPatch, "INVALID_ARGUMENTS", 0)
  /\ UNCHANGED <<devices, gNextAudioPatchHandle, provider, dcheckEnabled, aborted, issued,
                 released, closedOk, threadVars>>

\* An update that leaves previousPatch open.
updateAudioPatchReplaceKeepsOld(d, previousPatch) ==
  /\ ~aborted
  /\ AllocBound
  /\ SetEraseCount(mAudioPatchHandles[d], previousPatch) # 0
  /\ LET newPatch == gNextAudioPatchHandle IN
       /\ gNextAudioPatchHandle' = PostIncrement(gNextAudioPatchHandle)
       /\ mAudioPatchHandles' =
            [mAudioPatchHandles EXCEPT ![d] = SetInsert(@, newPatch)]
       /\ last' = Rec("updateAudioPatch", d, previousPatch, "OK", newPatch)
       /\ issued' = Append(issued, <<d, newPatch>>)
       /\ released' = released \cup {<<d, previousPatch>>}
  /\ UNCHANGED <<devices, provider, dcheckEnabled, aborted, closedOk, threadVars>>

\* DeviceImpl::updateAudioPatch, previousPatch erased: allocate its replacement.
updateAudioPatchReplace(d, previousPatch) ==
  /\ ~aborted
  /\ AllocBound
  /\ SetEraseCount(mAudioPatchHandles[d], previousPatch) # 0
  /\ LET newPatch == gNextAudioPatchHandle IN
       /\ gNextAudioPatchHandle' = PostIncrement(gNextAudioPatchHandle)
       /\ mAudioPatchHandles' =
            [mAudioPatchHandles EXCEPT
               ![d] = SetInsert(SetErase(@, previousPatch), newPatch)]
       /\ last' = Rec("updateAudioPatch", d, previousPatch, "OK", newPatch)
       /\ issued' = Append(issued, <<d, newPatch>>)
       /\ released' = released \cup {<<d, previousPatch>>}
  /\ UNCHANGED <<devices, provider, dcheckEnabled, aborted, closedOk, threadVars>>

updateAudioPatch(d, previousPatch) ==
  \/ updateAudioPatchInvalid(d, previousPatch)
  \/ updateAudioPatchReplace(d, previousPatch)

\* DeviceImpl::openOutputStream, the provider handing back a stream, or a
\* null one with DCHECK compiled out.
openOutputStream(d, bus, config) ==
  /\ ~aborted
  /\ nextStreamId <= MaxStreams
  /\ bus = "stream" \/ ~dcheckEnabled
  /\ LET streamOut == Session(nextStreamId, d, bus) IN
       /\ mStreamOutList' = OnStreamOutCreated(mStreamOutList, streamOut)
       /\ strongRefs' = strongRefs \cup {streamOut.id}
       /\ nextStreamId' = nextStreamId + 1
       /\ last' = StreamRec("openOutputStream", d, streamOut.id, "OK",
                            NegotiatedConfig(config), toAidlAudioConfig(config))
  /\ UNCHANGED <<devices, registry, dcheckEnabled, aborted, issued, released, closedOk,
                 threadVars>>

\* DeviceImpl::openOutputStream, DCHECK(busOutputStream) failing.
openOutputStreamAbort(d) ==
  /\ ~aborted
  /\ nextStreamId <= MaxStreams
  /\ dcheckEnabled
  /\ aborted' = TRUE
  /\ last' = Rec("openOutputStream", d, 0, "aborted", 0)
  /\ UNCHANGED <<devices, registry, provider, dcheckEnabled, issued, released, closedOk,
                 threadVars>>

\* An openInputStream that opens a stream after all.
openInputStreamOpens(d, config) ==
  /\ ~aborted
  /\ nextStreamId <= MaxStreams
  /\ mStreamOutList' =
       OnStreamOutCreated(mStreamOutList, Session(nextStreamId, d, "stream"))
  /\ strongRefs' = strongRefs \cup {nextStreamId}
  /\ nextStreamId' = nextStreamId + 1
  /\ last' = [Rec("openInputStream", d, nextStreamId, "OK", 0) EXCEPT !.config = config]
  /\ UNCHANGED <<devices, registry, dcheckEnabled, aborted, issued, released,
                 closedOk, threadVars>>

\* DeviceImpl::openInputStream: _hidl_cb(Result::NOT_SUPPORTED, sp<IStreamIn>(), config)
openInputStream(d, config) ==
  /\ ~aborted
  /\ last' = [Rec("openInputStream", d, 0, "NOT_SUPPORTED", 0) EXCEPT !.config = config]
  /\ UNCHANGED <<devices, registry, provider, dcheckEnabled, aborted, issued,
                 released, closedOk, threadVars>>

\* The methods that only report a fixed status.
StubOps ==
  {"setMasterVolume", "getMasterVolume", "setMicMute", "getMicMute",
   "setMasterMute", "getMasterMute", "getInputBufferSize", "getAudioPort",
   "setAudioPortConfig", "getHwAvSync", "setScreenState", "getParameters",
   "setParameters", "getMicrophones", "setConnectedState", "addDeviceEffect",
   "removeDeviceEffect"}

\* A table in which setConnectedState is unsupported like the rest.
StubResultAllUnsupported(op) == "NOT_SUPPORTED"

\* The status each of them reports.
StubResult(op) ==
  CASE op = "setMasterVolume" -> "NOT_SUPPORTED"
    [] op = "getMasterVolume" -> "NOT_SUPPORTED"
    [] op = "setMicMute" -> "NOT_SUPPORTED"
    [] op = "getMicMute" -> "NOT_SUPPORTED"
    [] op = "setMasterMute" -> "NOT_SUPPORTED"
    [] op = "getMasterMute" -> "NOT_SUPPORTED"
    [] op = "getInputBufferSize" -> "NOT_SUPPORTED"
    [] op = "getAudioPort" -> "NOT_SUPPORTED"
    [] op = "setAudioPortConfig" -> "NOT_SUPPORTED"
    [] op = "getHwAvSync" -> "NOT_SUPPORTED"
    [] op = "setScreenState" -> "NOT_SUPPORTED"
    [] op = "getParameters" -> "NOT_SUPPORTED"
    [] op = "setParameters" -> "NOT_SUPPORTED"
    [] op = "getMicrophones" -> "NOT_SUPPORTED"
    [] op = "setConnectedState" -> "OK"
    [] op = "addDeviceEffect" -> "NOT_SUPPORTED"
    [] op = "removeDeviceEffect" -> "NOT_SUPPORTED"

\* DeviceImpl::setMasterVolume .. removeDeviceEffect: report the status (with
\* a zero, false or empty payload where there is one) and touch nothing.
stubCall(d, op) ==
  /\ ~aborted
  /\ last' = Rec(op, d, 0, StubResult(op), 0)
  /\ UNCHANGED <<devices, registry, provider, dcheckEnabled, aborted, issued,
                 released, closedOk, threadVars>>

\* DeviceImpl::close
close(d) ==
  /\ ~aborted
  /\ LET cleaned == CleanStreamOutList(mStreamOutList, strongRefs)
         status == CloseResult(Cardinality(cleaned)) IN
       /\ mStreamOutList' = cleaned
       /\ last' = Rec("close", d, 0, status, 0)
       /\ closedOk' = IF status = "OK" THEN closedOk \cup {d} ELSE closedOk
  /\ UNCHANGED <<devices, registry, strongRefs, nextStreamId, dcheckEnabled, aborted,
                 issued, released, threadVars>>

\* The framework drops its last strong reference to a stream it was given.
streamOutReleased(id) ==
  /\ ~aborted
  /\ id \in strongRefs
  /\ \A t \in Threads : loc[t].id # id
  /\ strongRefs' = strongRefs \ {id}
  /\ last' = Rec("streamOutReleased", 0, id, "none", 0)
  /\ UNCHANGED <<devices, registry, mStreamOutList, nextStreamId, dcheckEnabled, aborted,
                 issued, released, closedOk, threadVars>>

Next ==
  \/ \E d \in devices : createAudioPatch(d)
  \/ \E d \in devices, h \in HandleArgs : releaseAudioPatch(d, h)
  \/ \E d \in devices, h \in HandleArgs : updateAudioPatch(d, h)
  \/ \E d \in devices, bus \in BusStreams, config \in Configs :
       openOutputStream(d, bus, config)
  \/ \E d \in devices : openOutputStreamAbort(d)
  \/ \E d \in devices : close(d)
  \/ \E d \in devices, config \in Configs : openInputStream(d, config)
  \/ \E d \in devices, op \in StubOps : stubCall(d, op)
  \/ \E id \in StreamIds : streamOutReleased(id)

Spec == Init /\ [][Next]_vars

\* Two Devices constructed in one process, their patch calls arriving one at
\* a time.
InitDevices == Constructed(DeviceIds)

NextDevices ==
  \/ \E d \in devices : createAudioPatch(d)
  \/ \E d \in devices, h \in HandleArgs : releaseAudioPatch(d, h)
  \/ \E d \in devices, h \in HandleArgs : updateAudioPatch(d, h)

SpecDevices == InitDevices /\ [][NextDevices]_vars

\* ------------------------------------ the counter at the end of its type
\* A process that has made AudioPatchHandleMax - 2 allocations and released
\* them all: the counter stands two below the maximum of int32_t.  `issued`
\* and `released` record what happens from here on.
InitWrap ==
  /\ devices = {1}
  /\ gNextAudioPatchHandle = AudioPatchHandleMax - 1
  /\ mAudioPatchHandles = [d \in {1} |-> {}]
  /\ mStreamOutList = {}
  /\ strongRefs = {}
  /\ nextStreamId = 1
  /\ dcheckEnabled \in BOOLEAN
  /\ aborted = FALSE
  /\ last = NoCall
  /\ issued = <<>>
  /\ released = {}
  /\ closedOk = {}
  /\ pc = [t \in Threads |-> "idle"]
  /\ loc = [t \in Threads |-> NoLocals]

\* The handle values around the wrap.
WrapHandleArgs ==
  {AudioPatchHandleMax - 1, AudioPatchHandleMax, AudioPatchHandleMin,
   AudioPatchHandleMin + 1}

\* gNextAudioPatchHandle++ at the maximum is a signed overflow, which is
\* undefined: PostIncrement is the build that wraps, this the build that
\* traps (an overflow-sanitized one), inside createAudioPatch or
\* updateAudioPatch after previousPatch is erased.
incrementTraps(d) ==
  /\ ~aborted
  /\ AllocBound
  /\ gNextAudioPatchHandle = AudioPatchHandleMax
  /\ aborted' = TRUE
  /\ \/ /\ last' = Rec("createAudioPatch", d, 0, "aborted", 0)
        /\ UNCHANGED <<mAudioPatchHandles, released>>
     \/ \E previousPatch \in mAudioPatchHandles[d] :
          /\ mAudioPatchHandles' =
               [mAudioPatchHandles EXCEPT ![d] = SetErase(@, previousPatch)]
          /\ released' = released \cup {<<d, previousPatch>>}
          /\ last' = Rec("updateAudioPatch", d, previousPatch, "aborted", 0)
  /\ UNCHANGED <<devices, gNextAudioPatchHandle, provider, dcheckEnabled, issued,
                 closedOk, threadVars>>

NextWrap ==
  \/ \E d \in devices : createAudioPatch(d)
  \/ \E d \in devices, h \in WrapHandleArgs : releaseAudioPatch(d, h)
  \/ \E d \in devices, h \in WrapHandleArgs : updateAudioPatch(d, h)
  \/ \E d \in devices : incrementTraps(d)

SpecWrap == InitWrap /\ [][NextWrap]_vars

\* ------------------------------- calls of concurrent binder threads
\* DeviceImpl takes no lock: a call is a run of statements, and the threads'
\* statements interleave.  The unsynchronised accesses to the counter and to
\* std::set are data races; the outcomes kept are those of the accesses
\* taking effect one after another in some order, so `g++` is a read and a
\* later write, and erase(key) a lookup and a later unlink.

Goto(t, label, frame) ==
  /\ pc' = [pc EXCEPT ![t] = label]
  /\ loc' = [loc EXCEPT ![t] = frame]

\* The call hands over its result and returns.
Return(t) == Goto(t, "idle", [NoLocals EXCEPT !.results = loc[t].results + 1])

\* createAudioPatch: handle = gNextAudioPatchHandle (the read of `++`)
createLoad(t, d) ==
  /\ ~aborted /\ pc[t] = "idle"
  /\ AllocBound
  /\ Goto(t, "createStore", Locals(d, 0, gNextAudioPatchHandle, 0, "none", 0))
  /\ UNCHANGED <<devices, registry, provider, dcheckEnabled, aborted, last,
                 issued, released, closedOk>>

\* createAudioPatch: the write of `++`
createStore(t) ==
  /\ ~aborted /\ pc[t] = "createStore"
  /\ gNextAudioPatchHandle' = PostIncrement(loc[t].handle)
  /\ Goto(t, "createInsert", loc[t])
  /\ UNCHANGED <<devices, mAudioPatchHandles, provider, dcheckEnabled, aborted,
                 last, issued, released, closedOk>>

\* createAudioPatch: insert(handle); _hidl_cb(Result::OK, handle)
createInsert(t) ==
  /\ ~aborted /\ pc[t] = "createInsert"
  /\ mAudioPatchHandles' =
       [mAudioPatchHandles EXCEPT ![loc[t].dev] = SetInsert(@, loc[t].handle)]
  /\ last' = Rec("createAudioPatch", loc[t].dev, 0, "OK", loc[t].handle)
  /\ issued' = Append(issued, <<loc[t].dev, loc[t].handle>>)
  /\ Return(t)
  /\ UNCHANGED <<devices, gNextAudioPatchHandle, provider, dcheckEnabled, aborted,
                 released, closedOk>>

\* releaseAudioPatch: erase(patch) looking the key up
releaseFind(t, d, patch) ==
  /\ ~aborted /\ pc[t] = "idle"
  /\ Goto(t, "releaseErase",
          Locals(d, patch, 0, SetEraseCount(mAudioPatchHandles[d], patch), "none", 0))
  /\ UNCHANGED <<devices, registry, provider, dcheckEnabled, aborted, last,
                 issued, released, closedOk>>

\* releaseAudioPatch: erase(patch) unlinking what it found; the return
releaseErase(t) ==
  /\ ~aborted /\ pc[t] = "releaseErase"
  /\ mAudioPatchHandles' =
       [mAudioPatchHandles EXCEPT ![loc[t].dev] = SetErase(@, loc[t].arg)]
  /\ last' = Rec("releaseAudioPatch", loc[t].dev, loc[t].arg,
                 ReleaseResult(loc[t].found), 0)
  /\ released' = IF loc[t].found > 0
                   THEN released \cup {<<loc[t].dev, loc[t].arg>>}
                   ELSE released
  /\ Return(t)
  /\ UNCHANGED <<devices, gNextAudioPatchHandle, provider, dcheckEnabled, aborted,
                 issued, closedOk>>

\* updateAudioPatch: erase(previousPatch) looking the key up
updateFind(t, d, previousPatch) ==
  /\ ~aborted /\ pc[t] = "idle"
  /\ LET found == SetEraseCount(mAudioPatchHandles[d], previousPatch) IN
       /\ found = 0 \/ AllocBound
       /\ Goto(t, "updateErase", Locals(d, previousPatch, 0, found, "none", 0))
  /\ UNCHANGED <<devices, registry, provider, dcheckEnabled, aborted, last,
                 issued, released, closedOk>>

\* An early exit that hands over INVALID_ARGUMENTS and then falls through to
\* the allocation instead of returning.
updateEraseNoneFallsThrough(t) ==
  /\ ~aborted /\ pc[t] = "updateErase"
  /\ loc[t].found = 0
  /\ last' = Rec("updateAudioPatch", loc[t].dev, loc[t].arg, "INVALID_ARGUMENTS", 0)
  /\ Goto(t, "updateLoad", [loc[t] EXCEPT !.results = loc[t].results + 1])
  /\ UNCHANGED <<devices, registry, provider, dcheckEnabled, aborted, issued,
                 released, closedOk>>

\* updateAudioPatch: erase(previousPatch) == 0, the early return
updateEraseNone(t) ==
  /\ ~aborted /\ pc[t] = "updateErase"
  /\ loc[t].found = 0
  /\ last' = Rec("updateAudioPatch", loc[t].dev, loc[t].arg, "INVALID_ARGUMENTS", 0)
  /\ Return(t)
  /\ UNCHANGED <<devices, registry, provider, dcheckEnabled, aborted, issued,
                 released, closedOk>>

\* updateAudioPatch: erase(previousPatch) unlinking what it found
updateErase(t) ==
  /\ ~aborted /\ pc[t] = "updateErase"
  /\ loc[t].found # 0
  /\ mAudioPatchHandles' =
       [mAudioPatchHandles EXCEPT ![loc[t].dev] = SetErase(@, loc[t].arg)]
  /\ released' = released \cup {<<loc[t].dev, loc[t].arg>>}
  /\ Goto(t, "updateLoad", loc[t])
  /\ UNCHANGED <<devices, gNextAudioPatchHandle, provider, dcheckEnabled, aborted,
                 last, issued, closedOk>>

\* updateAudioPatch: newPatch = gNextAudioPatchHandle (the read of `++`)
updateLoad(t) ==
  /\ ~aborted /\ pc[t] = "updateLoad"
  /\ Goto(t, "updateStore", [loc[t] EXCEPT !.handle = gNextAudioPatchHandle])
  /\ UNCHANGED <<devices, registry, provider, dcheckEnabled, aborted, last,
                 issued, released, closedOk>>

\* updateAudioPatch: the write of `++`
updateStore(t) ==
  /\ ~aborted /\ pc[t] = "updateStore"
  /\ gNextAudioPatchHandle' = PostIncrement(loc[t].handle)
  /\ Goto(t, "updateInsert", loc[t])
  /\ UNCHANGED <<devices, mAudioPatchHandles, provider, dcheckEnabled, aborted,
                 last, issued, released, closedOk>>

\* updateAudioPatch: insert(newPatch); _hidl_cb(Result::OK, newPatch)
updateInsert(t) ==
  /\ ~aborted /\ pc[t] = "updateInsert"
  /\ mAudioPatchHandles' =
       [mAudioPatchHandles EXCEPT ![loc[t].dev] = SetInsert(@, loc[t].handle)]
  /\ last' = Rec("updateAudioPatch", loc[t].dev, loc[t].arg, "OK", loc[t].handle)
  /\ issued' = Append(issued, <<loc[t].dev, loc[t].handle>>)
  /\ Return(t)
  /\ UNCHANGED <<devices, gNextAudioPatchHandle, provider, dcheckEnabled, aborted,
                 released, closedOk>>

\* openOutputStream: the provider's openOutputStream, the DCHECK passing or
\* compiled out, and sp<StreamOutImpl>::make
openCreate(t, d, bus, config) ==
  /\ ~aborted /\ pc[t] = "idle"
  /\ nextStreamId <= MaxStreams
  /\ bus = "stream" \/ ~dcheckEnabled
  /\ strongRefs' = strongRefs \cup {nextStreamId}
  /\ nextStreamId' = nextStreamId + 1
  /\ Goto(t, "openRegister",
          [Locals(d, 0, 0, 0, bus, nextStreamId) EXCEPT !.config = config])
  /\ UNCHANGED <<devices, registry, mStreamOutList, dcheckEnabled, aborted, last,
                 issued, released, closedOk>>

\* openOutputStream: DCHECK(busOutputStream) failing
openCreateAbort(t, d) ==
  /\ ~aborted /\ pc[t] = "idle"
  /\ nextStreamId <= MaxStreams
  /\ dcheckEnabled
  /\ aborted' = TRUE
  /\ last' = Rec("openOutputStream", d, 0, "aborted", 0)
  /\ UNCHANGED <<devices, registry, provider, dcheckEnabled, issued, released,
                 closedOk, threadVars>>

\* An openOutputStream that goes on to its callback without registering.
openRegisterSkipped(t) ==
  /\ ~aborted /\ pc[t] = "openRegister"
  /\ Goto(t, "openCallback", loc[t])
  /\ UNCHANGED <<devices, registry, provider, dcheckEnabled, aborted, last,
                 issued, released, closedOk>>

\* openOutputStream: onStreamOutCreated(streamOut)
openRegister(t) ==
  /\ ~aborted /\ pc[t] = "openRegister"
  /\ mStreamOutList' =
       OnStreamOutCreated(mStreamOutList, Session(loc[t].id, loc[t].dev, loc[t].bus))
  /\ Goto(t, "openCallback", loc[t])
  /\ UNCHANGED <<devices, registry, strongRefs, nextStreamId, dcheckEnabled,
                 aborted, last, issued, released, closedOk>>

\* openOutputStream: _hidl_cb(Result::OK, streamOut, config); return Void()
openCallback(t) ==
  /\ ~aborted /\ pc[t] = "openCallback"
  /\ last' = StreamRec("openOutputStream", loc[t].dev, loc[t].id, "OK",
                       NegotiatedConfig(loc[t].config),
                       toAidlAudioConfig(loc[t].config))
  /\ Return(t)
  /\ UNCHANGED <<devices, registry, provider, dcheckEnabled, aborted, issued,
                 released, closedOk>>

\* close: one call into the provider and the return
closeCall(t, d) ==
  /\ pc[t] = "idle"
  /\ close(d)

\* Two threads on the patch calls of the one Device.
NextConcPatch ==
  \E t \in Threads :
    \/ \E d \in devices : createLoad(t, d)
    \/ createStore(t)
    \/ createInsert(t)
    \/ \E d \in devices, h \in HandleArgs : releaseFind(t, d, h)
    \/ releaseErase(t)
    \/ \E d \in devices, h \in HandleArgs : updateFind(t, d, h)
    \/ updateEraseNone(t)
    \/ updateErase(t)
    \/ updateLoad(t)
    \/ updateStore(t)
    \/ updateInsert(t)

SpecConcPatch == Init /\ [][NextConcPatch]_vars

\* Two threads on openOutputStream and close, streams being dropped meanwhile.
NextConcStream ==
  \/ \E t \in Threads :
       \/ \E d \in devices, bus \in BusStreams, config \in Configs :
            openCreate(t, d, bus, config)
       \/ \E d \in devices : openCreateAbort(t, d)
       \/ openRegister(t)
       \/ openCallback(t)
       \/ \E d \in devices : closeCall(t, d)
  \/ \E id \in StreamIds : streamOutReleased(id)

SpecConcStream == Init /\ [][NextConcStream]_vars

\* One call at a time, statement by statement: a thread starts or continues
\* a call only while no other thread is inside one.
NextCalls ==
  \/ \E t \in Threads :
       /\ \A u \in Threads \ {t} : pc[u] = "idle"
       /\ \/ \E d \in devices : createLoad(t, d)
          \/ createStore(t)
          \/ createInsert(t)
          \/ \E d \in devices, h \in HandleArgs : releaseFind(t, d, h)
          \/ releaseErase(t)
          \/ \E d \in devices, h \in HandleArgs : updateFind(t, d, h)
          \/ updateEraseNone(t)
          \/ updateErase(t)
          \/ updateLoad(t)
          \/ updateStore(t)
          \/ updateInsert(t)
          \/ \E d \in devices, bus \in BusStreams, config \in Configs :
               openCreate(t, d, bus, config)
          \/ \E d \in devices : openCreateAbort(t, d)
          \/ openRegister(t)
          \/ openCallback(t)
          \/ \E d \in devices : closeCall(t, d)
  \/ \E id \in StreamIds :
       /\ \A u \in Threads : pc[u] = "idle"
       /\ streamOutReleased(id)

SpecCalls == Init /\ [][NextCalls]_vars

\* ------------------------------------------------------------ properties
OK == "OK"
INVALID_ARGUMENTS == "INVALID_ARGUMENTS"
INVALID_STATE == "INVALID_STATE"
NOT_SUPPORTED == "NOT_SUPPORTED"

\* The handles reported with Result::OK on device d, in allocation order.
IssuedOn(d) == SelectSeq(issued, LAMBDA p : p[1] = d)

\* The allocation a step reports, when it reports one.
Allocates == issued' # issued
NewAlloc == issued'[Len(issued')]

\* C1: the handles createAudioPatch and updateAudioPatch report on a Device
\* are pairwise distinct and strictly increasing in allocation order, and a
\* handle that was released is never reported again.
C1_HandlesDistinctIncreasing ==
  [][Allocates =>
       /\ \A i \in 1 .. Len(issued) :
            issued[i][1] = NewAlloc[1] => issued[i][2] < NewAlloc[2]
       /\ NewAlloc \notin released
       /\ NewAlloc \notin released']_vars

\* create -> 1, create -> 2, release(1), then create -> 3 with 1 not reused.
C1_Witness ==
  /\ last = Rec("createAudioPatch", 1, 0, OK, 3)
  /\ <<1, 1>> \in released
  /\ mAudioPatchHandles[1] = {2, 3}

\* C2: close() reports OK exactly when no stream session remains registered
\* with the provider after pruning, and INVALID_STATE otherwise.
C2_CloseOkOnlyWithoutStreams ==
  last.op = "close" =>
    /\ last.status \in {OK, INVALID_STATE}
    /\ last.status = OK <=> mStreamOutList = {}
    /\ last.status = INVALID_STATE <=>
         (\E s \in mStreamOutList : s.id \in strongRefs)

\* close() refused while a stream was held, and accepted once it was dropped.
C2_Witness ==
  /\ last.op = "close"
  /\ last.status = OK
  /\ nextStreamId > 1
  /\ strongRefs = {}

\* C3: concurrent createAudioPatch / updateAudioPatch calls never report the
\* same handle, and once they have all returned the counter has advanced by
\* one for each handle reported.
C3_ConcurrentAllocationsDistinct ==
  /\ \A i, j \in 1 .. Len(issued) : i # j => issued[i] # issued[j]
  /\ (\A t \in Threads : pc[t] = "idle") =>
       gNextAudioPatchHandle = 1 + Len(issued)

\* C4: while one thread's updateAudioPatch stands between the removal of
\* previousPatch and the insertion of its replacement, no other thread runs a
\* statement of a patch call on the same Device.
C4_UpdateNotSplit ==
  [][\A t \in Threads :
       pc[t] \in {"updateLoad", "updateStore", "updateInsert"} =>
         \A u \in Threads \ {t} :
           (loc[u].dev = loc[t].dev \/ loc'[u].dev = loc[t].dev) =>
             (pc'[u] = pc[u] /\ loc'[u] = loc[u])]_vars

\* C5: close() does not report OK while an openOutputStream on the same
\* Device has its bus stream and session made but not yet registered.
C5_CloseSeesInFlightOpen ==
  [][(last'.op = "close" /\ last'.status = OK /\ UNCHANGED threadVars) =>
       ~ \E u \in Threads : pc[u] = "openRegister" /\ loc[u].dev = last'.dev]_vars

\* C6: updateAudioPatch on a handle that is not open reports
\* INVALID_ARGUMENTS and changes neither the counter nor the open set, so the
\* createAudioPatch that follows returns what it would have returned anyway.
C6_FailedUpdateConsumesNothing ==
  [][/\ (last'.op = "updateAudioPatch"
          /\ last'.arg \notin mAudioPatchHandles[last'.dev]) =>
         /\ last'.status = INVALID_ARGUMENTS
         /\ UNCHANGED registry
     /\ (last.op = "updateAudioPatch" /\ last.status = INVALID_ARGUMENTS
          /\ last'.op = "createAudioPatch") =>
         last'.handle = 1 + Len(issued)]_vars

\* A failed update with handles open and the counter advanced.
C6_Witness ==
  /\ last.op = "updateAudioPatch"
  /\ last.status = INVALID_ARGUMENTS
  /\ mAudioPatchHandles[last.dev] # {}
  /\ <<last.dev, last.arg>> \in released

\* C7: releaseAudioPatch(h) reports OK iff h is open, and then removes
\* exactly h; otherwise it reports INVALID_ARGUMENTS and changes nothing.  A
\* handle released once is never open again, so releasing it again fails.
C7_ReleaseIffOpen ==
  [][last'.op = "releaseAudioPatch" =>
       LET d == last'.dev
           h == last'.arg IN
         /\ gNextAudioPatchHandle' = gNextAudioPatchHandle
         /\ IF h \in mAudioPatchHandles[d]
              THEN /\ last'.status = OK
                   /\ mAudioPatchHandles' =
                        [mAudioPatchHandles EXCEPT ![d] = @ \ {h}]
              ELSE /\ last'.status = INVALID_ARGUMENTS
                   /\ mAudioPatchHandles' = mAudioPatchHandles
         /\ <<d, h>> \in released => last'.status = INVALID_ARGUMENTS]_vars

\* The second release of a handle, failing.
C7_Witness ==
  /\ last.op = "releaseAudioPatch"
  /\ last.status = INVALID_ARGUMENTS
  /\ <<last.dev, last.arg>> \in released
  /\ mAudioPatchHandles[last.dev] # {}

\* C8: updateAudioPatch(h) on an open h reports OK with a handle h' # h;
\* afterwards h is closed and h' is open, every other handle is as it was,
\* and a following release(h) fails while a following release(h') succeeds.
C8_UpdateReplaces ==
  [][/\ (last'.op = "updateAudioPatch"
          /\ last'.arg \in mAudioPatchHandles[last'.dev]) =>
         LET d == last'.dev
             h == last'.arg
             hNew == last'.handle IN
           /\ last'.status = OK
           /\ hNew # h
           /\ hNew \notin mAudioPatchHandles[d]
           /\ mAudioPatchHandles' =
                [mAudioPatchHandles EXCEPT ![d] = (@ \ {h}) \cup {hNew}]
     /\ (last.op = "updateAudioPatch" /\ last.status = OK
          /\ last'.op = "releaseAudioPatch" /\ last'.dev = last.dev) =>
         /\ last'.arg = last.arg => last'.status = INVALID_ARGUMENTS
         /\ last'.arg = last.handle => last'.status = OK]_vars

\* An update that replaced one of two open handles.
C8_Witness ==
  /\ last.op = "updateAudioPatch"
  /\ last.status = OK
  /\ last.arg \notin mAudioPatchHandles[last.dev]
  /\ Cardinality(mAudioPatchHandles[last.dev]) = 2

\* C9: once close() has returned OK on a Device, that Device never again
\* owns a live output-stream session.
C9_ClosedStaysClosed ==
  \A d \in closedOk :
    ~ \E s \in mStreamOutList : s.dev = d /\ s.id \in strongRefs

C11_NullBusNeverWrapped ==
  /\ \A s \in mStreamOutList : s.bus # "null"
  /\ (last.op = "openOutputStream" /\ last.status = OK) =>
       \A s \in mStreamOutList : s.id = last.arg => s.bus # "null"

\* C12: an openOutputStream that got a non-null bus stream reports OK with a
\* non-null stream session and hands back, field for field, the config the
\* caller asked for.
C12_ConfigEchoed ==
  [][\A t \in Threads :
       (pc[t] = "openCallback" /\ pc'[t] = "idle" /\ loc[t].bus = "stream") =>
         /\ last'.op = "openOutputStream"
         /\ last'.status = OK
         /\ last'.arg = loc[t].id /\ last'.arg # 0
         /\ last'.config.format = loc[t].config.format
         /\ last'.config.sampleRateHz = loc[t].config.sampleRateHz
         /\ last'.config.channelMask = loc[t].config.channelMask]_vars

\* A stream opened with the config whose sample rate does not fit the bus's
\* signed field: the bus was given a negative rate, the caller its own back.
C12_Witness ==
  /\ last.op = "openOutputStream"
  /\ last.status = OK
  /\ last.config.sampleRateHz = U32(1, 44100)
  /\ last.busConfig.sampleRateHz < 0
  /\ \E s \in mStreamOutList : s.id = last.arg /\ s.bus = "stream"

\* C13: openInputStream reports NOT_SUPPORTED with a null stream, whatever
\* the state, and changes neither the open handles, nor the counter, nor the
\* provider's streams.
C13_InputStreamUnsupported ==
  [][last'.op = "openInputStream" =>
       /\ last'.status = NOT_SUPPORTED
       /\ last'.arg = 0
       /\ UNCHANGED <<registry, provider>>]_vars

\* openInputStream declined on a Device with a patch open and a stream live.
C13_Witness ==
  /\ last.op = "openInputStream"
  /\ last.status = NOT_SUPPORTED
  /\ mAudioPatchHandles[last.dev] # {}
  /\ \E s \in mStreamOutList : s.id \in strongRefs

\* C14: every capability stub reports NOT_SUPPORTED and setConnectedState
\* reports OK, in every state, and none of them changes the open handles,
\* the counter or the provider's streams.
C14_StubsFixedAndInert ==
  [][last'.op \in StubOps =>
       /\ last'.status = IF last'.op = "setConnectedState" THEN OK ELSE NOT_SUPPORTED
       /\ last'.handle = 0 /\ last'.arg = 0
       /\ UNCHANGED <<registry, provider>>]_vars

\* setConnectedState accepted on a Device with a patch open and a stream live.
C14_Witness ==
  /\ last.op = "setConnectedState"
  /\ last.status = OK
  /\ mAudioPatchHandles[last.dev] # {}
  /\ \E s \in mStreamOutList : s.id \in strongRefs

\* C15: every handle reported is a positive integer that was not reported
\* before, however many allocations have been made.
C15_HandlesPositiveAndFresh ==
  /\ \A i \in 1 .. Len(issued) : issued[i][2] > 0
  /\ \A i, j \in 1 .. Len(issued) : i # j => issued[i][2] # issued[j][2]

\* C16: of the concurrent releaseAudioPatch(h) and updateAudioPatch(h) calls
\* on an open handle h exactly one succeeds: a call that succeeds in erasing
\* h (release reporting OK, update going on to allocate the replacement)
\* removes a handle that is still in the open set, so no second call
\* succeeds on it and no second replacement is allocated for it.
C16_ReleasedExactlyOnce ==
  [][\A t \in Threads :
       (\/ pc[t] = "releaseErase" /\ pc'[t] = "idle" /\ loc[t].found > 0
        \/ pc[t] = "updateErase" /\ pc'[t] = "updateLoad") =>
         loc[t].arg \in mAudioPatchHandles[loc[t].dev]]_vars

\* C17: openOutputStream makes one bus stream, registers one session for it
\* and only then reports; a close() while a reported stream is still held
\* reports INVALID_STATE.
C17_RegisteredBeforeReported ==
  [][/\ \A t \in Threads :
          /\ (pc[t] = "idle" /\ pc'[t] = "openRegister") =>
               /\ nextStreamId' = nextStreamId + 1
               /\ mStreamOutList' = mStreamOutList
          /\ (pc[t] = "openRegister" /\ pc'[t] = "openCallback") =>
               /\ mStreamOutList' \ mStreamOutList =
                    {Session(loc[t].id, loc[t].dev, loc[t].bus)}
               /\ mStreamOutList \subseteq mStreamOutList'
               /\ nextStreamId' = nextStreamId
          /\ (pc[t] = "openCallback" /\ pc'[t] = "idle") =>
               /\ Session(loc[t].id, loc[t].dev, loc[t].bus) \in mStreamOutList
               /\ UNCHANGED provider
               /\ last'.status = OK
     /\ (/\ last'.op = "close"
         /\ UNCHANGED <<threadVars, strongRefs>>
         /\ last.op = "openOutputStream" /\ last.status = OK
         /\ last.arg \in strongRefs) =>
          last'.status = INVALID_STATE]_vars

\* A stream was opened and reported, and the close() that followed while it
\* was held was refused.
C17_Witness ==
  /\ last.op = "close"
  /\ last.status = INVALID_STATE
  /\ \A t \in Threads : pc[t] = "idle"
  /\ \E t \in Threads : loc[t].results = 1
  /\ \E s \in mStreamOutList : s.id \in strongRefs

\* C18: a call hands over its result exactly once and only as it returns:
\* none has been handed over while the call is inside its body, one has
\* when it is back, on the early exit of updateAudioPatch as on the other
\* paths, and the status handed over is one of the Result values.
C18_ResultExactlyOnce ==
  [][\A t \in Threads :
       /\ pc'[t] # "idle" => loc'[t].results = 0
       /\ (pc[t] # "idle" /\ pc'[t] = "idle") =>
            /\ loc'[t].results = 1
            /\ last'.op \in {"createAudioPatch", "releaseAudioPatch",
                             "updateAudioPatch", "openOutputStream"}
            /\ last'.status \in {OK, INVALID_ARGUMENTS}]_vars

\* updateAudioPatch on a handle already released left by its early exit,
\* its callback invoked once.
C18_Witness ==
  /\ \E t \in Threads : pc[t] = "idle" /\ loc[t].results = 1
  /\ \A t \in Threads : pc[t] = "idle"
  /\ last = Rec("updateAudioPatch", 1, 1, INVALID_ARGUMENTS, 0)
  /\ <<1, 1>> \in released

\* C19: close() leaves the counter and every open set as they were, its
\* status is decided by the provider's count of live streams alone, and a
\* handle open when close() reported is released with OK by the call that
\* follows.
C19_CloseIgnoresPatches ==
  [][/\ last'.op = "close" =>
          /\ UNCHANGED registry
          /\ UNCHANGED <<issued, released>>
          /\ last'.status = OK <=>
               CleanStreamOutList(mStreamOutList, strongRefs) = {}
     /\ (/\ last.op = "close"
         /\ last'.op = "releaseAudioPatch"
         /\ last'.arg \in mAudioPatchHandles[last'.dev]) =>
          /\ last'.status = OK
          /\ last'.arg \notin mAudioPatchHandles'[last'.dev]]_vars

\* close() reported OK with a patch handle open, and the handle was
\* released afterwards.
C19_Witness ==
  /\ last.op = "releaseAudioPatch"
  /\ last.status = OK
  /\ last.dev \in closedOk
  /\ gNextAudioPatchHandle = 2
  /\ mAudioPatchHandles[last.dev] = {}

\* C20: calls being made one after another, every open handle is at least 1
\* and below the counter, and a Device's open set has as many handles as
\* were reported to it less those given back (an update reports one and
\* takes one back, so creates less releases).
C20_OpenSetAccounting ==
  \A d \in devices :
    /\ \A h \in mAudioPatchHandles[d] : 1 <= h /\ h < gNextAudioPatchHandle
    /\ Cardinality(mAudioPatchHandles[d]) =
         Len(IssuedOn(d)) - Cardinality({p \in released : p[1] = d})

\* Two creates, an update of the first and a release of the second: three
\* handles reported, two given back, one open.
C20_Witness ==
  /\ last = Rec("releaseAudioPatch", 1, 2, OK, 0)
  /\ Len(issued) = 3
  /\ released = {<<1, 1>>, <<1, 2>>}
  /\ mAudioPatchHandles[1] = {3}

====
